---- MODULE Spec2Model ----
(***************************************************************************)
(* Model of the gateway connection loop (crates/gateway) and of the event  *)
(* bus (crates/events) of spacebar-server-rs.                              *)
(*                                                                         *)
(* Gateway: one task per accepted websocket runs handle_socket             *)
(* (connection.rs).  The tasks share the session registry                  *)
(* state.connections, a tokio Mutex around a HashMap keyed by the peer     *)
(* address.  Every .await of handle_socket is a point where other tasks    *)
(* run; the registry lock is modelled explicitly.                          *)
(***************************************************************************)
EXTENDS Integers, Sequences, FiniteSets, TLC

\* ---------------------------------------------------------------- bounds
MaxAccepts == 2      \* upgrades accepted in one run (an address may reconnect)
MaxFrames == 2       \* inbound frames received in one run, over all connections

\* ------------------------------------------------------ program constants
HeartbeatInterval == 30000
OpHello == 10
OpHeartbeatAck == 11
OpHeartbeat == 1
OpIdentify == 2
OpResume == 6
CodeDecodeError == 4002
CodeInvalidApiVersion == 4012
CodeUnknownOpcode == 4001
U8Max == 255
U16Max == 65535

\* The peer addresses that connect, and the holder of a free lock.
Conns == {"a1", "a2"}
NoOne == "none"

VARIABLES
    pc,           \* pc[c]: position of the task of address c in handle_socket
    lock,         \* holder of the state.connections mutex, NoOne when free
    connections,  \* the registry: address -> ConnectionInfo
    nextSession,  \* nextSession[c]: session ids generated for address c so far
    info,         \* info[c]: the task's ConnectionInfo (session_id, shard)
    up,           \* up[c]: the transport of c still works
    out,          \* out[c]: frames handed to socket.send, with the result
    ran,          \* ran[c]: opcode handlers run for c, in order
    nIn,          \* inbound frames taken from recv, over all connections
    accepts,      \* handle_socket calls started
    exits         \* receive loops left

gwVars == <<pc, lock, connections, nextSession, info, up, out, ran, nIn, accepts, exits>>

VARIABLES
    CONFIG,       \* OnceCell<Config>: Unset, or whether rabbitmq.host is set
    RABBIT_CONN,  \* OnceCell<Connection>: Unset, or the init_event call that set it
    RABBIT_CH,    \* OnceCell<Channel>
    LOCAL_TX,     \* OnceCell<broadcast::Sender<Event>>
    ipc,          \* ipc[k]: position of caller k in init_event
    ires,         \* ires[k]: what k's last init_event call returned
    attempts,     \* attempts[k]: Connection::connect calls of k's current call
    sawFail,      \* sawFail[k]: k's current call met a broker failure
    chan,         \* the events sent on the local broadcast channel, in order
    exchanges,    \* the exchanges declared on the broker
    sub,          \* sub[s]: the subscription behind handle s and its task
    received,     \* received[s]: the callback's invocations, in order
    due,          \* due[s]: matching events published while s was subscribed
    pubs,         \* emit_event calls made
    lastCall      \* the last emit_event or listen_event call and what it returned

initVars == <<CONFIG, RABBIT_CONN, RABBIT_CH, LOCAL_TX, ipc, ires, attempts, sawFail>>
busVars == <<chan, exchanges, sub, received, due, pubs, lastCall>>

vars == <<gwVars, initVars, busVars>>

\* ------------------------------------------------------------------ shard
\* The "shard" query value: absent, or a string.  A string is modelled by
\* the parts split(',') yields; a part is text that is a decimal number
\* (num, with its value) or not.
Part(n, v) == [num |-> n, v |-> v]
NoShard == [some |-> FALSE, id |-> 0, count |-> 0]
ShardQueries ==
    { <<>>,                                     \* no "shard" key
      <<Part(TRUE, 0), Part(TRUE, 2)>>,         \* "0,2"
      <<Part(TRUE, 1)>>,                        \* "1"
      <<Part(TRUE, U16Max + 1), Part(TRUE, 2)>>,\* "65536,2"
      <<Part(FALSE, 0), Part(TRUE, 2)>>,        \* "a,2"
      <<Part(TRUE, 0), Part(TRUE, 2), Part(TRUE, 3)>> }  \* "0,2,3"

\* str::parse::<u16>
ParseU16Ok(p) == p.num /\ p.v >= 0 /\ p.v <= U16Max

\* Mutant of ParseShard: the first two parts are read and further parts are
\* ignored.
ParseShard_first_two(q) ==
    IF Len(q) >= 2 /\ ParseU16Ok(q[1]) /\ ParseU16Ok(q[2])
    THEN [some |-> TRUE, id |-> q[1].v, count |-> q[2].v]
    ELSE NoShard

\* connection.rs 20-28
ParseShard(q) ==
    IF Len(q) = 2 /\ ParseU16Ok(q[1]) /\ ParseU16Ok(q[2])
    THEN [some |-> TRUE, id |-> q[1].v, count |-> q[2].v]
    ELSE NoShard

\* ----------------------------------------------------------------- frames
Hello == [kind |-> "Text", op |-> OpHello, heartbeat_interval |-> HeartbeatInterval]
HeartbeatAck == [kind |-> "Text", op |-> OpHeartbeatAck]

\* GatewayError values
DecodeError == [err |-> "DecodeError", op |-> 0]
InvalidApiVersion == [err |-> "InvalidApiVersion", op |-> 0]
UnknownOpcode(n) == [err |-> "UnknownOpcode", op |-> n]

\* Mutant of ErrorText: the opcode is left out of the text.
ErrorText_without_opcode(e) ==
    CASE e.err = "DecodeError" -> <<"decode error">>
      [] e.err = "InvalidApiVersion" -> <<"invalid api version">>
      [] e.err = "UnknownOpcode" -> <<"unknown opcode">>

\* error.rs: Display of GatewayError
ErrorText(e) ==
    CASE e.err = "DecodeError" -> <<"decode error">>
      [] e.err = "InvalidApiVersion" -> <<"invalid api version">>
      [] e.err = "UnknownOpcode" -> <<"unknown opcode", e.op>>

\* Mutant of close_frame: a decode error is given the code of
\* InvalidApiVersion.
close_frame_decode_4012(e) ==
    [kind |-> "Close",
     code |-> CASE e.err = "DecodeError" -> CodeInvalidApiVersion
                [] e.err = "InvalidApiVersion" -> CodeInvalidApiVersion
                [] e.err = "UnknownOpcode" -> CodeUnknownOpcode,
     reason |-> ErrorText(e)]

\* error.rs: GatewayError::close_frame
close_frame(e) ==
    [kind |-> "Close",
     code |-> CASE e.err = "DecodeError" -> CodeDecodeError
                [] e.err = "InvalidApiVersion" -> CodeInvalidApiVersion
                [] e.err = "UnknownOpcode" -> CodeUnknownOpcode,
     reason |-> ErrorText(e)]

\* Inbound text frames.  shape: the text is not JSON, a JSON scalar, or a
\* JSON object; opKind: the object has no "op", an integer "op", or an "op"
\* of another JSON type; hasD: the object has a "d".
Txt(shape, opKind, op, hasD) ==
    [kind |-> "Text", shape |-> shape, opKind |-> opKind, op |-> op, hasD |-> hasD]
OpValues == {-1, 1, 2, 6, 99, 255, 256}
Texts ==
    { Txt("notjson", "absent", 0, FALSE), Txt("scalar", "absent", 0, FALSE),
      Txt("object", "absent", 0, TRUE), Txt("object", "other", 0, TRUE) }
    \cup { Txt("object", "int", n, TRUE) : n \in OpValues }
    \cup { Txt("object", "int", n, FALSE) : n \in {1, 2, 6, 99} }
InMsgs ==
    Texts \cup { [kind |-> k] : k \in {"Binary", "Close", "Ping", "Pong"} }

\* Mutant of ParsePayload: a missing or non-integer "op" read as 0.
ParsePayload_default_op(t) ==
    IF t.shape = "object" /\ (t.opKind # "int" \/ (t.op >= 0 /\ t.op <= U8Max))
    THEN [ok |-> TRUE, op |-> IF t.opKind = "int" THEN t.op ELSE 0]
    ELSE [ok |-> FALSE, op |-> 0]

\* opcodes/mod.rs 9-14: serde_json::from_str::<Payload>.  op is a u8, d
\* defaults to null when absent.
ParsePayload(t) ==
    IF t.shape = "object" /\ t.opKind = "int" /\ t.op >= 0 /\ t.op <= U8Max
    THEN [ok |-> TRUE, op |-> t.op]
    ELSE [ok |-> FALSE, op |-> 0]

\* The outcome of dispatch: the handler run, the frames it sends, and Ok or
\* the error.
Outcome(h, s, ok, e) == [handler |-> h, sends |-> s, ok |-> ok, err |-> e]
Ok == [err |-> "none", op |-> 0]

\* Mutants of dispatch: a Heartbeat that sends no ack; an unknown opcode that
\* is accepted.
dispatch_silent_heartbeat(op) ==
    CASE op = OpHeartbeat -> Outcome(<<"heartbeat">>, <<>>, TRUE, Ok)
      [] op = OpIdentify -> Outcome(<<"identify">>, <<>>, TRUE, Ok)
      [] op = OpResume -> Outcome(<<"resume">>, <<>>, TRUE, Ok)
      [] OTHER -> Outcome(<<>>, <<>>, FALSE, UnknownOpcode(op))
dispatch_lenient(op) ==
    CASE op = OpHeartbeat -> Outcome(<<"heartbeat">>, <<HeartbeatAck>>, TRUE, Ok)
      [] op = OpIdentify -> Outcome(<<"identify">>, <<>>, TRUE, Ok)
      [] op = OpResume -> Outcome(<<"resume">>, <<>>, TRUE, Ok)
      [] OTHER -> Outcome(<<>>, <<>>, TRUE, Ok)

\* Mutant of dispatch: the match has no arm for Resume, which falls to the
\* unknown-opcode arm.
dispatch_no_resume(op) ==
    CASE op = OpHeartbeat -> Outcome(<<"heartbeat">>, <<HeartbeatAck>>, TRUE, Ok)
      [] op = OpIdentify -> Outcome(<<"identify">>, <<>>, TRUE, Ok)
      [] OTHER -> Outcome(<<>>, <<>>, FALSE, UnknownOpcode(op))

\* opcodes/mod.rs 16-27: dispatch, with handlers.rs
dispatch(op) ==
    CASE op = OpHeartbeat -> Outcome(<<"heartbeat">>, <<HeartbeatAck>>, TRUE, Ok)
      [] op = OpIdentify -> Outcome(<<"identify">>, <<>>, TRUE, Ok)
      [] op = OpResume -> Outcome(<<"resume">>, <<>>, TRUE, Ok)
      [] OTHER -> Outcome(<<>>, <<>>, FALSE, UnknownOpcode(op))

\* connection.rs 46-75: what one received message does: handlers run, frames
\* sent, and whether the loop breaks.
Step(h, s, b) == [handler |-> h, sends |-> s, brk |-> b]

\* Mutant of OnMessage: the close frame of a dispatch error is sent and the
\* loop goes on (no break).
OnMessage_no_break(m) ==
    CASE m.kind = "Text" ->
            LET p == ParsePayload(m) IN
            IF p.ok
            THEN LET r == dispatch(p.op) IN
                 IF r.ok THEN Step(r.handler, r.sends, FALSE)
                 ELSE Step(r.handler, r.sends \o <<close_frame(r.err)>>, FALSE)
            ELSE Step(<<>>, <<close_frame(DecodeError)>>, TRUE)
      [] m.kind = "Binary" -> Step(<<>>, <<close_frame(DecodeError)>>, TRUE)
      [] m.kind = "Close" -> Step(<<>>, <<>>, TRUE)
      [] OTHER -> Step(<<>>, <<>>, FALSE)

\* Mutant of OnMessage: the catch-all arm breaks, so a ping or a pong ends
\* the loop.
OnMessage_break_on_other(m) ==
    CASE m.kind = "Text" ->
            LET p == ParsePayload(m) IN
            IF p.ok
            THEN LET r == dispatch(p.op) IN
                 IF r.ok THEN Step(r.handler, r.sends, FALSE)
                 ELSE Step(r.handler, r.sends \o <<close_frame(r.err)>>, TRUE)
            ELSE Step(<<>>, <<close_frame(DecodeError)>>, TRUE)
      [] m.kind = "Binary" -> Step(<<>>, <<close_frame(DecodeError)>>, TRUE)
      [] m.kind = "Close" -> Step(<<>>, <<>>, TRUE)
      [] OTHER -> Step(<<>>, <<>>, TRUE)

OnMessage(m) ==
    CASE m.kind = "Text" ->
            LET p == ParsePayload(m) IN
            IF p.ok
            THEN LET r == dispatch(p.op) IN
                 IF r.ok THEN Step(r.handler, r.sends, FALSE)
                 ELSE Step(r.handler, r.sends \o <<close_frame(r.err)>>, TRUE)
            ELSE Step(<<>>, <<close_frame(DecodeError)>>, TRUE)
      [] m.kind = "Binary" -> Step(<<>>, <<close_frame(DecodeError)>>, TRUE)
      [] m.kind = "Close" -> Step(<<>>, <<>>, TRUE)
      [] OTHER -> Step(<<>>, <<>>, FALSE)

\* socket.send(f): the result is dropped by the caller.  A send on a broken
\* transport fails; a failed send leaves the transport broken.
Sent(f, ok) == [f |-> f, ok |-> ok]

\* ------------------------------------------------------------- registry
\* HashMap<SocketAddr, ConnectionInfo> as the set of its entries.
Entry(a, sid, sh) == [addr |-> a, session_id |-> sid, shard |-> sh]
Keys(m) == { e.addr : e \in m }
\* HashMap::insert: an entry under the same key is replaced
MapInsert(m, e) == { x \in m : x.addr # e.addr } \cup {e}
\* HashMap::remove
MapRemove(m, a) == { x \in m : x.addr # a }

\* ---------------------------------------------------------------- actions
GwInit ==
    /\ pc = [c \in Conns |-> "idle"]
    /\ lock = NoOne
    /\ connections = {}
    /\ nextSession = [c \in Conns |-> 0]
    /\ info = [c \in Conns |-> Entry(c, <<c, 0>>, NoShard)]
    /\ up = [c \in Conns |-> FALSE]
    /\ out = [c \in Conns |-> <<>>]
    /\ ran = [c \in Conns |-> <<>>]
    /\ nIn = 0
    /\ accepts = 0
    /\ exits = 0

\* connection.rs 18: Uuid::new_v4() is a value no other call returns: the
\* pair of the address and the count of ids generated for it.
NewSessionId(c) == <<c, nextSession[c] + 1>>

\* main.rs ws_handler / connection.rs 18-28: the upgrade succeeded and
\* handle_socket starts for address c with query q.  The transport gives a
\* live connection an address no other live connection has, so c is accepted
\* again only after its previous task has ended.
Accept(c, q) ==
    /\ pc[c] \in {"idle", "done"}
    /\ accepts < MaxAccepts
    /\ accepts' = accepts + 1
    /\ nextSession' = [nextSession EXCEPT ![c] = @ + 1]
    /\ info' = [info EXCEPT ![c] = Entry(c, NewSessionId(c), ParseShard(q))]
    /\ up' = [up EXCEPT ![c] = TRUE]
    /\ out' = [out EXCEPT ![c] = <<>>]
    /\ ran' = [ran EXCEPT ![c] = <<>>]
    /\ pc' = [pc EXCEPT ![c] = "wantInsert"]
    /\ UNCHANGED <<lock, connections, nIn, exits>>
    /\ UNCHANGED <<initVars, busVars>>

\* state.connections.lock().await (connection.rs 31, 34, 79)
Acquire(c) ==
    /\ pc[c] \in {"wantInsert", "wantCount", "wantRemove"}
    /\ lock = NoOne
    /\ lock' = c
    /\ pc' = [pc EXCEPT ![c] = CASE pc[c] = "wantInsert" -> "inserting"
                                 [] pc[c] = "wantCount" -> "counting"
                                 [] pc[c] = "wantRemove" -> "removing"]
    /\ UNCHANGED <<connections, nextSession, info, up, out, ran, nIn, accepts, exits>>
    /\ UNCHANGED <<initVars, busVars>>

\* Mutant of InsertedMap: the map is rebuilt from the new entry alone.
InsertedMap_overwrite(m, c) == {info[c]}

\* connection.rs 32-33: conns.insert(addr, ConnectionInfo{..}); guard dropped
InsertedMap(m, c) == MapInsert(m, info[c])

\* Mutant of Insert: the guard is not scoped to the insert block and stays
\* held by the task.
Insert_keep_guard(c) ==
    /\ pc[c] = "inserting"
    /\ lock = c
    /\ connections' = InsertedMap(connections, c)
    /\ pc' = [pc EXCEPT ![c] = "wantCount"]
    /\ UNCHANGED <<lock, nextSession, info, up, out, ran, nIn, accepts, exits>>
    /\ UNCHANGED <<initVars, busVars>>

Insert(c) ==
    /\ pc[c] = "inserting"
    /\ lock = c
    /\ connections' = InsertedMap(connections, c)
    /\ lock' = NoOne
    /\ pc' = [pc EXCEPT ![c] = "wantCount"]
    /\ UNCHANGED <<nextSession, info, up, out, ran, nIn, accepts, exits>>
    /\ UNCHANGED <<initVars, busVars>>

\* Mutant of Count: the task goes from the size read straight to its receive
\* loop; the Hello is not sent.
Count_skip_hello(c) ==
    /\ pc[c] = "counting"
    /\ lock = c
    /\ lock' = NoOne
    /\ pc' = [pc EXCEPT ![c] = "recv"]
    /\ UNCHANGED <<connections, nextSession, info, up, out, ran, nIn, accepts, exits>>
    /\ UNCHANGED <<initVars, busVars>>

\* connection.rs 34-35: let total = ....len(); the guard is a temporary
Count(c) ==
    /\ pc[c] = "counting"
    /\ lock = c
    /\ lock' = NoOne
    /\ pc' = [pc EXCEPT ![c] = "hello"]
    /\ UNCHANGED <<connections, nextSession, info, up, out, ran, nIn, accepts, exits>>
    /\ UNCHANGED <<initVars, busVars>>

\* connection.rs 37-38: let _ = socket.send(hello)
SendHello(c, ok) ==
    /\ pc[c] = "hello"
    /\ up[c] \/ ~ok
    /\ out' = [out EXCEPT ![c] = Append(@, Sent(Hello, ok))]
    /\ up' = [up EXCEPT ![c] = ok]
    /\ pc' = [pc EXCEPT ![c] = "recv"]
    /\ UNCHANGED <<lock, connections, nextSession, info, ran, nIn, accepts, exits>>
    /\ UNCHANGED <<initVars, busVars>>

\* connection.rs 41-75: socket.recv() yields Some(Ok(m)); m is handled
SendAll(fs, ok) == [i \in 1..Len(fs) |-> Sent(fs[i], ok)]
RecvMessage(c, m, ok) ==
    /\ pc[c] = "recv"
    /\ up[c]
    /\ nIn < MaxFrames
    /\ LET r == OnMessage(m) IN
        /\ ok \/ r.sends # <<>>
        /\ nIn' = nIn + 1
        /\ ran' = [ran EXCEPT ![c] = @ \o r.handler]
        /\ out' = [out EXCEPT ![c] = @ \o SendAll(r.sends, ok)]
        /\ up' = [up EXCEPT ![c] = ok]
        /\ pc' = [pc EXCEPT ![c] = IF r.brk THEN "wantRemove" ELSE "recv"]
        /\ exits' = IF r.brk THEN exits + 1 ELSE exits
    /\ UNCHANGED <<lock, connections, nextSession, info, accepts>>
    /\ UNCHANGED <<initVars, busVars>>

\* Mutant of RecvEnd: the end of the stream returns from the task at once,
\* past the cleanup block.
RecvEnd_early_return(c) ==
    /\ pc[c] = "recv"
    /\ up' = [up EXCEPT ![c] = FALSE]
    /\ pc' = [pc EXCEPT ![c] = "done"]
    /\ exits' = exits + 1
    /\ UNCHANGED <<lock, connections, nextSession, info, out, ran, nIn, accepts>>
    /\ UNCHANGED <<initVars, busVars>>

\* connection.rs 41-44: socket.recv() yields None or Some(Err(_)): break
RecvEnd(c) ==
    /\ pc[c] = "recv"
    /\ up' = [up EXCEPT ![c] = FALSE]
    /\ pc' = [pc EXCEPT ![c] = "wantRemove"]
    /\ exits' = exits + 1
    /\ UNCHANGED <<lock, connections, nextSession, info, out, ran, nIn, accepts>>
    /\ UNCHANGED <<initVars, busVars>>

\* Mutant of RemovedMap: the map is cleared.
RemovedMap_clear(m, c) == {}

\* Mutant of RemovedMap: the entry is left in the map.
RemovedMap_noop(m, c) == m

\* connection.rs 80-83: conns.remove(&addr); guard dropped; the task ends
RemovedMap(m, c) == MapRemove(m, c)
Remove(c) ==
    /\ pc[c] = "removing"
    /\ lock = c
    /\ connections' = RemovedMap(connections, c)
    /\ lock' = NoOne
    /\ pc' = [pc EXCEPT ![c] = "done"]
    /\ UNCHANGED <<nextSession, info, up, out, ran, nIn, accepts, exits>>
    /\ UNCHANGED <<initVars, busVars>>

GwNext ==
    \/ \E c \in Conns, q \in ShardQueries : Accept(c, q)
    \/ \E c \in Conns : Acquire(c)
    \/ \E c \in Conns : Insert(c)
    \/ \E c \in Conns : Count(c)
    \/ \E c \in Conns, ok \in BOOLEAN : SendHello(c, ok)
    \/ \E c \in Conns, m \in InMsgs, ok \in BOOLEAN : RecvMessage(c, m, ok)
    \/ \E c \in Conns : RecvEnd(c)
    \/ \E c \in Conns : Remove(c)

\* ============================================================ event bus
\* crates/events/src/lib.rs.  The three OnceCell statics are process-wide.
\* init_event may be called by several tasks at once; callers publish and
\* subscribe only while no init_event call is under way, as
\* GatewayServer::start does (main.rs 51: init_event().await? comes first).

\* ---------------------------------------------------------------- bounds
MaxPublish == 2        \* emit_event calls in one run
ChannelCapacity == 1   \* slots of the local channel (the code asks for 100)

InitCallers == {"i1", "i2", "i3"}
Subs == {"s1", "s2"}
SubOrder == [s \in Subs |-> IF s = "s1" THEN 1 ELSE 2]
Topics == {"G1", "C42"}
Unset == "unset"
None == "none"

\* lib.rs 9-16
Event(name, data, g, c, u) ==
    [event |-> name, data |-> data, guild_id |-> g, channel_id |-> c, user_id |-> u]
PubEvents ==
    { Event("MESSAGE_CREATE", "d1", "G1", None, None),
      Event("MESSAGE_CREATE", "d1", None, "C42", None),
      Event("MESSAGE_UPDATE", "d2", "G1", "C42", None),
      Event("TYPING_START", "d3", None, None, "C42"),
      Event("MESSAGE_CREATE", "d1", None, None, None) }

NoEvent == Event(None, None, None, None, None)

\* Option::or
OrElse(a, b) == IF a # None THEN a ELSE b

\* Mutant of TopicOf: an event without ids gets the empty id.
TopicOf_unwrap_or_default(e) ==
    OrElse(OrElse(OrElse(e.guild_id, e.channel_id), e.user_id), "")

\* lib.rs 43-48: guild_id.or(channel_id).or(user_id)
TopicOf(e) == OrElse(OrElse(e.guild_id, e.channel_id), e.user_id)

\* lib.rs 23: RABBIT_CH.get().is_some() || LOCAL_TX.get().is_some()
Pinned == RABBIT_CH # Unset \/ LOCAL_TX # Unset

\* lib.rs 50, 63, 75, 129: the backend emit_event and listen_event take
Backend ==
    IF RABBIT_CH # Unset THEN "Broker"
    ELSE IF LOCAL_TX # Unset THEN "Local"
    ELSE "None"

\* OnceCell::set(v).ok(): a set cell keeps its value
SetOnce(cell, v) == IF cell = Unset THEN v ELSE cell

\* confirm: the broker confirmation a successful broker publish waited for
NoCall == [op |-> "none", res |-> "none", confirm |-> "none"]
EmitResult(r) == [op |-> "emit_event", res |-> r, confirm |-> "none"]
ListenResult(r) == [op |-> "listen_event", res |-> r, confirm |-> "none"]

NoSub == [st |-> "none", backend |-> "None", topic |-> None, next |-> 0,
          queue |-> <<>>, phase |-> "recv", midPoll |-> FALSE, aborted |-> FALSE,
          lagged |-> FALSE, lagAt |-> 0, relagged |-> FALSE, acked |-> 0]

BusInit ==
    /\ CONFIG = Unset
    /\ RABBIT_CONN = Unset
    /\ RABBIT_CH = Unset
    /\ LOCAL_TX = Unset
    /\ ipc = [k \in InitCallers |-> "idle"]
    /\ ires = [k \in InitCallers |-> "none"]
    /\ attempts = [k \in InitCallers |-> 0]
    /\ sawFail = [k \in InitCallers |-> FALSE]
    /\ chan = <<>>
    /\ exchanges = {}
    /\ sub = [s \in Subs |-> NoSub]
    /\ received = [s \in Subs |-> <<>>]
    /\ due = [s \in Subs |-> <<>>]
    /\ pubs = 0
    /\ lastCall = NoCall

\* ------------------------------------------------------------ init_event
InitReturn(k, r) ==
    /\ ipc' = [ipc EXCEPT ![k] = "done"]
    /\ ires' = [ires EXCEPT ![k] = r]

\* lib.rs 37-39: a new channel is made and LOCAL_TX.set(tx).ok(); Ok(())
PinLocal(k) ==
    /\ LOCAL_TX' = SetOnce(LOCAL_TX, k)
    /\ InitReturn(k, "Ok")
    /\ UNCHANGED <<RABBIT_CONN, RABBIT_CH>>

\* lib.rs 22-25: the call starts; with a backend pinned it returns Ok at once
InitStart(k) ==
    /\ ipc[k] \in {"idle", "done"}
    /\ attempts' = [attempts EXCEPT ![k] = 0]
    /\ sawFail' = [sawFail EXCEPT ![k] = FALSE]
    /\ IF Pinned
       THEN InitReturn(k, "Ok")
       ELSE /\ ipc' = [ipc EXCEPT ![k] = "config"]
            /\ ires' = [ires EXCEPT ![k] = "none"]
    /\ UNCHANGED <<CONFIG, RABBIT_CONN, RABBIT_CH, LOCAL_TX>>
    /\ UNCHANGED <<gwVars, busVars>>

\* config/src/lib.rs 35-47: Config::init() loads the file once (get_or_init);
\* h is what a first load finds
LoadedConfig(h) == SetOnce(CONFIG, h)

\* Mutant of HostConfigured: a missing host is replaced by a default address.
HostConfigured_or_default(cfg) == TRUE

\* lib.rs 28: if let Some(host) = &cfg.rabbitmq.host
HostConfigured(cfg) == cfg = "host"

\* lib.rs 27-28: Config::init().await returned; is a host configured?
InitConfig(k, h) ==
    /\ ipc[k] = "config"
    /\ CONFIG' = LoadedConfig(h)
    /\ IF HostConfigured(CONFIG')
       THEN /\ ipc' = [ipc EXCEPT ![k] = "connect"]
            /\ UNCHANGED <<ires, RABBIT_CONN, RABBIT_CH, LOCAL_TX>>
       ELSE PinLocal(k)
    /\ UNCHANGED <<attempts, sawFail>>
    /\ UNCHANGED <<gwVars, busVars>>

\* lib.rs 29: Connection::connect(host, ..).await returned Ok or Err
AfterConnectFailure(k) == PinLocal(k)
InitConnect(k, ok) ==
    /\ ipc[k] = "connect"
    /\ attempts' = [attempts EXCEPT ![k] = @ + 1]
    /\ sawFail' = [sawFail EXCEPT ![k] = @ \/ ~ok]
    /\ IF ok
       THEN /\ ipc' = [ipc EXCEPT ![k] = "channel"]
            /\ UNCHANGED <<ires, RABBIT_CONN, RABBIT_CH, LOCAL_TX>>
       ELSE AfterConnectFailure(k)
    /\ UNCHANGED <<CONFIG>>
    /\ UNCHANGED <<gwVars, busVars>>

\* lib.rs 30-33: conn.create_channel().await? ; the two cells are set
InitChannel(k, ok) ==
    /\ ipc[k] = "channel"
    /\ sawFail' = [sawFail EXCEPT ![k] = @ \/ ~ok]
    /\ IF ok
       THEN /\ RABBIT_CONN' = SetOnce(RABBIT_CONN, k)
            /\ RABBIT_CH' = SetOnce(RABBIT_CH, k)
            /\ InitReturn(k, "Ok")
       ELSE /\ InitReturn(k, "Err")
            /\ UNCHANGED <<RABBIT_CONN, RABBIT_CH>>
    /\ UNCHANGED <<CONFIG, LOCAL_TX, attempts>>
    /\ UNCHANGED <<gwVars, busVars>>

InitNext ==
    \/ \E k \in InitCallers : InitStart(k)
    \/ \E k \in InitCallers, h \in {"host", "nohost"} : InitConfig(k, h)
    \/ \E k \in InitCallers, ok \in BOOLEAN : InitConnect(k, ok)
    \/ \E k \in InitCallers, ok \in BOOLEAN : InitChannel(k, ok)

\* no init_event call is under way
NoInitInFlight == \A k \in InitCallers : ipc[k] \in {"idle", "done"}

\* ------------------------------------------------------------ emit_event
\* lib.rs 58 and 106: serde_json::to_vec(&event.data) and
\* serde_json::from_slice(&delivery.data).unwrap_or(Value::Null)
ToVec(d) == <<"json", d>>
FromSlice(b) == IF Len(b) = 2 /\ b[1] = "json" THEN b[2] ELSE "null"

\* lib.rs 58-60: the message basic_publish sends: the payload, and the event
\* name as the type property.  src is the event it was made from.
Message(e) == [kind |-> e.event, payload |-> ToVec(e.data), src |-> e]

Live(s) == sub[s].st = "live"
\* the subscriptions a publish on topic id is owed to
Subscribed(id) == { s \in Subs : Live(s) /\ ~sub[s].aborted /\ sub[s].topic = id }
\* broadcast::Sender::receiver_count
Receivers == { s \in Subs : Live(s) /\ sub[s].backend = "Local" }
\* Mutant of Bound: a publish reaches every queue, whatever its exchange.
Bound_any_exchange(id) == { s \in Subs : Live(s) /\ sub[s].backend = "Broker" }

\* Mutant of Bound: listen_event consumes from its queue without binding it
\* to the exchange.
Bound_unbound(id) == {}

\* the queues bound to exchange id
Bound(id) == { s \in Subs : Live(s) /\ sub[s].backend = "Broker" /\ sub[s].topic = id }

Owed(id) == [s \in Subs |-> s \in Subscribed(id)]

\* broadcast::Sender::send: with no receiver the value is not stored and the
\* result is Err(SendError); else it is stored and the result is Ok
TxSend(e) ==
    IF Receivers = {} THEN [chan |-> chan, res |-> "SendError"]
    ELSE [chan |-> Append(chan, e), res |-> "Ok"]

\* Mutant of LocalEmitResult: the result of send is returned to the caller.
LocalEmitResult_propagate(r) == IF r = "Ok" THEN "Ok" ELSE "PublishError"

\* lib.rs 64-66: let _ = tx.send(event); Ok(())
LocalEmitResult(r) == "Ok"

\* lib.rs 30 and 60-62: basic_publish(..).await? hands back the publisher
\* confirm and the second .await? resolves it.  The channel made by
\* create_channel is never put in confirm mode (the crate has no
\* confirm_select call), so the confirm resolves at once, as NotRequested,
\* with no frame from the broker.
Confirmation == "NotRequested"

EmitReturn(e, r) ==
    /\ pubs' = pubs + 1
    /\ lastCall' = EmitResult(r)

\* lib.rs 42-67.  o is what the broker does: "ok", or the failure of
\* exchange_declare or of basic_publish.
Emit(e, o) ==
    /\ NoInitInFlight
    /\ pubs < MaxPublish
    /\ o = "ok" \/ (TopicOf(e) # None /\ Backend = "Broker")
    /\ LET id == TopicOf(e) IN
       IF id = None
       THEN /\ EmitReturn(e, "MissingRoutingKey")
            /\ UNCHANGED <<chan, exchanges, sub, due>>
       ELSE IF Backend = "Broker"
       THEN IF o = "declareErr"
            THEN /\ EmitReturn(e, "PublishError")
                 /\ UNCHANGED <<chan, exchanges, sub, due>>
            ELSE /\ exchanges' = exchanges \cup {id}
                 /\ IF o = "publishErr"
                    THEN /\ EmitReturn(e, "PublishError")
                         /\ UNCHANGED <<chan, sub, due>>
                    ELSE /\ sub' = [s \in Subs |->
                                     IF s \in Bound(id)
                                     THEN [sub[s] EXCEPT !.queue = Append(@, Message(e))]
                                     ELSE sub[s]]
                         /\ due' = [s \in Subs |->
                                     IF Owed(id)[s] THEN Append(due[s], e) ELSE due[s]]
                         /\ pubs' = pubs + 1
                         /\ lastCall' = [EmitResult("Ok") EXCEPT !.confirm = Confirmation]
                         /\ UNCHANGED chan
       ELSE IF Backend = "Local"
       THEN /\ chan' = TxSend(e).chan
            /\ due' = [s \in Subs |->
                        IF Owed(id)[s] THEN Append(due[s], e) ELSE due[s]]
            /\ EmitReturn(e, LocalEmitResult(TxSend(e).res))
            /\ UNCHANGED <<exchanges, sub>>
       ELSE /\ EmitReturn(e, "Ok")
            /\ UNCHANGED <<chan, exchanges, sub, due>>
    /\ UNCHANGED received
    /\ UNCHANGED <<gwVars, initVars>>

\* ---------------------------------------------------------- listen_event
\* Mutant of SubscribeAt: the new receiver starts at the oldest value the
\* channel still holds.
SubscribeAt_oldest ==
    IF Len(chan) > ChannelCapacity THEN Len(chan) - ChannelCapacity ELSE 0

\* lib.rs 130: tx.subscribe(): the new receiver sees the values sent after
\* the call, none of those the channel already holds.
SubscribeAt == Len(chan)

\* lib.rs 71-159.  o is what the broker does: "ok", or a failure of one of
\* exchange_declare, queue_declare, queue_bind, basic_consume.
Listen(s, id, o) ==
    /\ NoInitInFlight
    /\ sub[s].st = "none"
    /\ \A t \in Subs : SubOrder[t] < SubOrder[s] => sub[t].st # "none"
    /\ o = "ok" \/ Backend = "Broker"
    /\ IF Backend = "Broker"
       THEN IF o = "ok"
            THEN /\ exchanges' = exchanges \cup {id}
                 /\ sub' = [sub EXCEPT ![s] =
                              [NoSub EXCEPT !.st = "live", !.backend = "Broker", !.topic = id]]
                 /\ lastCall' = ListenResult("Ok")
            ELSE /\ lastCall' = ListenResult("Err")
                 /\ UNCHANGED <<exchanges, sub>>
       ELSE IF Backend = "Local"
       THEN /\ sub' = [sub EXCEPT ![s] =
                         [NoSub EXCEPT !.st = "live", !.backend = "Local", !.topic = id,
                                       !.next = SubscribeAt]]
            /\ lastCall' = ListenResult("Ok")
            /\ UNCHANGED exchanges
       ELSE /\ lastCall' = ListenResult("BusUninitialized")
            /\ UNCHANGED <<exchanges, sub>>
    /\ UNCHANGED <<chan, received, due, pubs>>
    /\ UNCHANGED <<gwVars, initVars>>

\* ------------------------------------------------------- delivery tasks
\* A task runs when the runtime polls it and goes on, through loop
\* iterations, until an .await returns Pending.  midPoll: the task is being
\* polled.  JoinHandle::abort marks the task: a suspended task is dropped
\* without being polled again; a task that is being polled is dropped when
\* it next suspends.

\* Mutant of Invoke: the callback runs in a task of its own for each event, and
\* a later event's invocation overtakes the earlier ones.
Invoke_overtaking(s, evt, src) == <<[evt |-> evt, src |-> src]>> \o received[s]

\* lib.rs 120 and 144: (cb)(evt) is called, in the task, one event at a time
Invoke(s, evt, src) == Append(received[s], [evt |-> evt, src |-> src])

\* a dropped task: its receiver or consumer, and what they held, are gone
Dropped == [NoSub EXCEPT !.st = "ended", !.aborted = TRUE]

\* Mutant of EvtId: the filter looks at the channel id first.
EvtId_channel_first(evt) == OrElse(OrElse(evt.channel_id, evt.guild_id), evt.user_id)

\* lib.rs 137-142: the id the local task's filter derives from an event:
\* guild_id.as_ref().or(channel_id.as_ref()).or(user_id.as_ref())
EvtId(evt) == OrElse(OrElse(evt.guild_id, evt.channel_id), evt.user_id)

\* broadcast::Receiver::recv, Ok(evt): the oldest value s has not read
NextEvent(s) == chan[sub[s].next + 1]

\* Mutant of AfterLag: a lagged receiver is closed and its task ends.
AfterLag_stop(s) ==
    [NoSub EXCEPT !.st = "ended", !.aborted = sub[s].aborted]

\* lib.rs 148: Err(Lagged(_)) => continue.  The receiver's cursor is moved to
\* the oldest value the channel still holds.  lagAt: how many events s was
\* owed when the lag was first observed.
AfterLag(s) ==
    [sub[s] EXCEPT !.next = Len(chan) - ChannelCapacity,
                   !.lagged = TRUE,
                   !.lagAt = IF sub[s].lagged THEN @ ELSE Len(due[s]),
                   !.relagged = sub[s].lagged,
                   !.midPoll = TRUE]

\* Mutant of LocalRecv: the receiver lags as soon as it is the channel's
\* capacity behind.
LocalRecv_lag_at_capacity(s) ==
    /\ Live(s) /\ sub[s].backend = "Local" /\ sub[s].phase = "recv"
    /\ sub[s].next < Len(chan)
    /\ IF Len(chan) - sub[s].next >= ChannelCapacity
       THEN /\ sub' = [sub EXCEPT ![s] = AfterLag(s)]
            /\ UNCHANGED received
       ELSE LET evt == NextEvent(s) IN
            IF EvtId(evt) = sub[s].topic
            THEN /\ sub' = [sub EXCEPT ![s].next = @ + 1,
                                       ![s].midPoll = TRUE, ![s].phase = "callback"]
                 /\ received' = [received EXCEPT ![s] = Invoke(s, evt, evt)]
            ELSE /\ sub' = [sub EXCEPT ![s].next = @ + 1,
                                       ![s].midPoll = TRUE]
                 /\ UNCHANGED received
    /\ UNCHANGED <<chan, exchanges, due, pubs, lastCall>>
    /\ UNCHANGED <<gwVars, initVars>>

\* lib.rs 135-149: rx.recv() returns an event or Lagged
LocalRecv(s) ==
    /\ Live(s) /\ sub[s].backend = "Local" /\ sub[s].phase = "recv"
    /\ sub[s].next < Len(chan)
    /\ IF Len(chan) - sub[s].next > ChannelCapacity
       THEN /\ sub' = [sub EXCEPT ![s] = AfterLag(s)]
            /\ UNCHANGED received
       ELSE LET evt == NextEvent(s) IN
            IF EvtId(evt) = sub[s].topic
            THEN /\ sub' = [sub EXCEPT ![s].next = @ + 1,
                                       ![s].midPoll = TRUE, ![s].phase = "callback"]
                 /\ received' = [received EXCEPT ![s] = Invoke(s, evt, evt)]
            ELSE /\ sub' = [sub EXCEPT ![s].next = @ + 1,
                                       ![s].midPoll = TRUE]
                 /\ UNCHANGED received
    /\ UNCHANGED <<chan, exchanges, due, pubs, lastCall>>
    /\ UNCHANGED <<gwVars, initVars>>

\* lib.rs 104-120: consumer.next() returns a delivery; the Event is rebuilt
Rebuilt(m, id) == Event(m.kind, FromSlice(m.payload), id, None, None)

\* Mutant of BrokerRecv: the delivery is acknowledged as soon as it is taken,
\* before the callback is called.
BrokerRecv_ack_first(s) ==
    /\ Live(s) /\ sub[s].backend = "Broker" /\ sub[s].phase = "recv"
    /\ sub[s].queue # <<>>
    /\ LET m == Head(sub[s].queue) IN
        /\ sub' = [sub EXCEPT ![s].queue = Tail(@), ![s].acked = @ + 1,
                              ![s].midPoll = TRUE, ![s].phase = "callback"]
        /\ received' = [received EXCEPT ![s] = Invoke(s, Rebuilt(m, sub[s].topic), m.src)]
    /\ UNCHANGED <<chan, exchanges, due, pubs, lastCall>>
    /\ UNCHANGED <<gwVars, initVars>>

\* Mutant of BrokerRecv: deliveries are handled as they come, whether or not
\* the callback of the one before has returned and its ack has completed.
BrokerRecv_concurrent(s) ==
    /\ Live(s) /\ sub[s].backend = "Broker"
    /\ sub[s].queue # <<>>
    /\ LET m == Head(sub[s].queue) IN
        /\ sub' = [sub EXCEPT ![s].queue = Tail(@),
                              ![s].midPoll = TRUE, ![s].phase = "callback"]
        /\ received' = [received EXCEPT ![s] = Invoke(s, Rebuilt(m, sub[s].topic), m.src)]
    /\ UNCHANGED <<chan, exchanges, due, pubs, lastCall>>
    /\ UNCHANGED <<gwVars, initVars>>

BrokerRecv(s) ==
    /\ Live(s) /\ sub[s].backend = "Broker" /\ sub[s].phase = "recv"
    /\ sub[s].queue # <<>>
    /\ LET m == Head(sub[s].queue) IN
        /\ sub' = [sub EXCEPT ![s].queue = Tail(@),
                              ![s].midPoll = TRUE, ![s].phase = "callback"]
        /\ received' = [received EXCEPT ![s] = Invoke(s, Rebuilt(m, sub[s].topic), m.src)]
    /\ UNCHANGED <<chan, exchanges, due, pubs, lastCall>>
    /\ UNCHANGED <<gwVars, initVars>>

\* Mutant of AfterDeliveryError: the loop ends at the first failed delivery
\* and the task returns.
AfterDeliveryError_stop(s) == [NoSub EXCEPT !.st = "ended"]

\* lib.rs 104-105: consumer.next() yields Some(Err(_)): if let Ok(..) does not
\* match, the body is skipped and the loop polls the consumer again.  (The
\* stream's end, like Closed of the local channel at line 147, comes only
\* with the end of the channel held by the static cell.)
AfterDeliveryError(s) == [sub[s] EXCEPT !.midPoll = TRUE]
BrokerRecvErr(s) ==
    /\ Live(s) /\ sub[s].backend = "Broker" /\ sub[s].phase = "recv"
    /\ sub' = [sub EXCEPT ![s] = AfterDeliveryError(s)]
    /\ UNCHANGED <<chan, exchanges, received, due, pubs, lastCall>>
    /\ UNCHANGED <<gwVars, initVars>>

\* lib.rs 120-121 and 144: (cb)(evt) returns
CallbackReturn(s) ==
    /\ Live(s) /\ sub[s].phase = "callback"
    /\ sub' = [sub EXCEPT ![s].phase =
                 IF sub[s].backend = "Broker" THEN "ack" ELSE "recv"]
    /\ UNCHANGED <<chan, exchanges, received, due, pubs, lastCall>>
    /\ UNCHANGED <<gwVars, initVars>>

\* lib.rs 121: delivery.ack(..).await completes
Ack(s) ==
    /\ Live(s) /\ sub[s].phase = "ack"
    /\ sub' = [sub EXCEPT ![s].phase = "recv", ![s].acked = @ + 1, ![s].midPoll = TRUE]
    /\ UNCHANGED <<chan, exchanges, received, due, pubs, lastCall>>
    /\ UNCHANGED <<gwVars, initVars>>

\* an .await of the task returns Pending: the task is suspended, and dropped
\* if it was aborted
Suspend(s) ==
    /\ Live(s) /\ sub[s].phase \in {"recv", "ack"} /\ sub[s].midPoll
    /\ sub' = [sub EXCEPT ![s] = IF sub[s].aborted THEN Dropped
                                 ELSE [@ EXCEPT !.midPoll = FALSE]]
    /\ UNCHANGED <<chan, exchanges, received, due, pubs, lastCall>>
    /\ UNCHANGED <<gwVars, initVars>>

\* lib.rs 125-127 and 152-154: the Cancel closure: handle.abort()
Aborted(t) == IF t.midPoll THEN [t EXCEPT !.aborted = TRUE] ELSE Dropped

\* Mutant of Cancel: the closure aborts the tasks of all subscriptions.
Cancel_all(s) ==
    /\ Live(s) /\ ~sub[s].aborted
    /\ sub' = [t \in Subs |-> IF Live(t) THEN Aborted(sub[t]) ELSE sub[t]]
    /\ UNCHANGED <<chan, exchanges, received, due, pubs, lastCall>>
    /\ UNCHANGED <<gwVars, initVars>>

Cancel(s) ==
    /\ Live(s) /\ ~sub[s].aborted
    /\ sub' = [sub EXCEPT ![s] = Aborted(sub[s])]
    /\ UNCHANGED <<chan, exchanges, received, due, pubs, lastCall>>
    /\ UNCHANGED <<gwVars, initVars>>

EventNext ==
    \/ \E e \in PubEvents, o \in {"ok", "declareErr", "publishErr"} : Emit(e, o)
    \/ \E s \in Subs, id \in Topics, o \in {"ok", "err"} : Listen(s, id, o)
    \/ \E s \in Subs : LocalRecv(s)
    \/ \E s \in Subs : BrokerRecv(s)
    \/ \E s \in Subs : BrokerRecvErr(s)
    \/ \E s \in Subs : CallbackReturn(s)
    \/ \E s \in Subs : Ack(s)
    \/ \E s \in Subs : Suspend(s)
    \/ \E s \in Subs : Cancel(s)

Init == GwInit /\ BusInit

Next == GwNext

Spec == Init /\ [][Next]_vars

\* init_event alone, with concurrent callers
InitSpec == Init /\ [][InitNext]_vars

\* The bus in use.  It starts in a state init_event calls leave behind once
\* they have all returned: no backend pinned (no call yet), the broker
\* pinned (a host is configured), or the local channel pinned (none is).
BusStart ==
    /\ GwInit
    /\ CONFIG \in {Unset, "host", "nohost"}
    /\ RABBIT_CH = IF CONFIG = "host" THEN "i1" ELSE Unset
    /\ RABBIT_CONN = RABBIT_CH
    /\ LOCAL_TX = IF CONFIG = "nohost" THEN "i2" ELSE Unset
    /\ ipc = [k \in InitCallers |-> IF CONFIG = Unset THEN "idle" ELSE "done"]
    /\ ires = [k \in InitCallers |-> IF CONFIG = Unset THEN "none" ELSE "Ok"]
    /\ attempts = [k \in InitCallers |-> IF CONFIG = "host" THEN 1 ELSE 0]
    /\ sawFail = [k \in InitCallers |-> FALSE]
    /\ chan = <<>>
    /\ exchanges = {}
    /\ sub = [s \in Subs |-> NoSub]
    /\ received = [s \in Subs |-> <<>>]
    /\ due = [s \in Subs |-> <<>>]
    /\ pubs = 0
    /\ lastCall = NoCall

BusSpec == BusStart /\ [][EventNext]_vars

\* The local channel with a subscriber that is behind.  It starts in a state
\* the bus reaches with the local channel pinned: s1 is subscribed to a
\* topic, s2 was subscribed and cancelled, and one or two events have been
\* published since that s1 has not taken yet.
Pending == { <<e>> : e \in PubEvents \ {e \in PubEvents : TopicOf(e) = None} }
           \cup { <<e, f>> : e, f \in PubEvents \ {e \in PubEvents : TopicOf(e) = None} }
OnTopic(q, id) == SelectSeq(q, LAMBDA e : TopicOf(e) = id)
LagStart ==
    /\ GwInit
    /\ CONFIG = "nohost"
    /\ RABBIT_CONN = Unset /\ RABBIT_CH = Unset
    /\ LOCAL_TX = "i2"
    /\ ipc = [k \in InitCallers |-> "done"]
    /\ ires = [k \in InitCallers |-> "Ok"]
    /\ attempts = [k \in InitCallers |-> 0]
    /\ sawFail = [k \in InitCallers |-> FALSE]
    /\ chan \in Pending
    /\ exchanges = {}
    /\ \E id \in Topics :
          /\ sub = [s \in Subs |->
                      IF s = "s1"
                      THEN [NoSub EXCEPT !.st = "live", !.backend = "Local", !.topic = id]
                      ELSE Dropped]
          /\ due = [s \in Subs |-> IF s = "s1" THEN OnTopic(chan, id) ELSE <<>>]
    /\ received = [s \in Subs |-> <<>>]
    /\ pubs = 0
    /\ lastCall = EmitResult("Ok")

LagNext ==
    \/ \E e \in PubEvents : Emit(e, "ok")
    \/ \E s \in Subs : LocalRecv(s)
    \/ \E s \in Subs : CallbackReturn(s)
    \/ \E s \in Subs : Suspend(s)
    \/ \E s \in Subs : Cancel(s)

LagSpec == LagStart /\ [][LagNext]_vars

\* ------------------------------------------------- connection states (4.2)
\* Connecting: handle_socket runs and has not inserted yet.  Open: from the
\* insert to the exit of the receive loop.  Closing: the loop is left and the
\* entry not yet removed.  Closed: the task has ended.
ConnState(c) ==
    CASE pc[c] = "idle" -> "None"
      [] pc[c] \in {"wantInsert", "inserting"} -> "Connecting"
      [] pc[c] \in {"wantCount", "counting", "hello", "recv"} -> "Open"
      [] pc[c] \in {"wantRemove", "removing"} -> "Closing"
      [] pc[c] = "done" -> "Closed"

LastSent(c) == out[c][Len(out[c])]

\* ------------------------------------------------------------------ C1
HeartbeatEnvelopes == { Txt("object", "int", OpHeartbeat, d) : d \in BOOLEAN }

\* C1: when an Open connection receives a well-formed envelope with op 1,
\* with or without "d", exactly one frame {"op":11} is handed to the socket
\* and nothing else, the loop goes on (the connection stays Open) and the
\* registry, with the connection's entry, is as before.
C1_HeartbeatAcked ==
    [][\A c \in Conns, m \in HeartbeatEnvelopes, ok \in BOOLEAN :
          (nIn' # nIn /\ RecvMessage(c, m, ok)) =>
             /\ ConnState(c) = "Open"
             /\ out'[c] = Append(out[c], [f |-> [kind |-> "Text", op |-> 11], ok |-> ok])
             /\ pc'[c] = "recv"
             /\ connections' = connections
             /\ c \in Keys(connections')]_vars

C1_Witness ==
    \E c \in Conns :
        /\ pc[c] = "recv"
        /\ Len(out[c]) >= 2
        /\ LastSent(c) = [f |-> [kind |-> "Text", op |-> 11], ok |-> TRUE]
        /\ ran[c] # <<>>
        /\ c \in Keys(connections)

\* ------------------------------------------------------------------ C2
IntEnvelopes == { m \in Texts : m.shape = "object" /\ m.opKind = "int" }
UnknownClose(n) == [kind |-> "Close", code |-> 4001, reason |-> <<"unknown opcode", n>>]
DecodeClose == [kind |-> "Close", code |-> 4002, reason |-> <<"decode error">>]

ClosesWith(c, frame, ok) ==
    /\ out'[c] = Append(out[c], [f |-> frame, ok |-> ok])
    /\ pc'[c] = "wantRemove"

\* no frame is handed to the socket after a close frame
NoFrameAfterClose ==
    \A c \in Conns : \A i \in 1..Len(out[c]) :
        out[c][i].f.kind = "Close" => i = Len(out[c])

Undecodable ==
    { m \in InMsgs :
        \/ m.kind = "Binary"
        \/ /\ m.kind = "Text"
           /\ (m.shape # "object" \/ m.opKind # "int" \/ m.op \notin 0..255) }

OpenConns == { c \in Conns : ConnState(c) = "Open" }

\* C4 as claimed: an address has a registry entry exactly when its connection
\* is Open, and the registry size is the number of Open connections.
C4_EntryIffOpen ==
    /\ \A c \in Conns : c \in Keys(connections) <=> ConnState(c) = "Open"
    /\ Cardinality(connections) = Cardinality(OpenConns)

\* C4 amended: an address has a registry entry exactly when its connection is
\* Open or Closing (from its insert to its remove), and the registry size is
\* the number of Open and Closing connections.
C4_EntryIffOpenOrClosing ==
    /\ \A c \in Conns :
          c \in Keys(connections) <=> ConnState(c) \in {"Open", "Closing"}
    /\ Cardinality(connections)
          = Cardinality({ c \in Conns : ConnState(c) \in {"Open", "Closing"} })

C4_Witness ==
    \E c, d \in Conns :
        /\ ConnState(c) = "Closing" /\ c \in Keys(connections)
        /\ ConnState(d) = "Closed" /\ d \notin Keys(connections)

\* ------------------------------------------------------------------ C5
\* no connect (insert) and no disconnect (remove) is under way
Quiescent ==
    \A c \in Conns : pc[c] \notin {"wantInsert", "inserting", "wantRemove", "removing"}

\* C5: once the connects and the disconnects that were started have all
\* completed, the registry holds one entry per connect less one per
\* disconnect.
C5_CountConverges ==
    Quiescent => Cardinality(connections) = accepts - exits

C5_Witness ==
    /\ Quiescent
    /\ accepts = 2
    /\ exits = 1
    /\ Cardinality(connections) = 1

\* ------------------------------------------------------ delivery (event bus)
\* the events the callback of s was invoked for, as they were published
Sources(s) == [i \in 1..Len(received[s]) |-> received[s][i].src]

\* s is subscribed and its Cancel has not been called
Active(s) == Live(s) /\ ~sub[s].aborted

\* the task of s has taken everything published so far
CaughtUp(s) ==
    IF sub[s].backend = "Local" THEN sub[s].next = Len(chan)
    ELSE sub[s].queue = <<>>

IsPrefix(p, q) == Len(p) <= Len(q) /\ \A i \in 1..Len(p) : p[i] = q[i]

OnTopicOnly(s) == \A i \in 1..Len(received[s]) : TopicOf(Sources(s)[i]) = sub[s].topic

\* C6 as stated: an event published on topic T reaches the callback of every
\* subscription that was active on T when it was published, and of no
\* subscription on another topic: a subscription that has caught up has been
\* handed exactly the events published on its topic since it subscribed.
C6_DeliveredToAll ==
    \A s \in Subs : Active(s) =>
        /\ OnTopicOnly(s)
        /\ CaughtUp(s) => Sources(s) = due[s]

\* C6, amended: the same for every subscription that has not lagged; a
\* subscription of the local channel that fell more than the channel's
\* capacity behind loses the oldest events, and is still handed events of its
\* own topic only.
C6_DeliveredUnlessLagged ==
    \A s \in Subs : Active(s) =>
        /\ OnTopicOnly(s)
        /\ ~sub[s].lagged => IsPrefix(Sources(s), due[s])
        /\ (CaughtUp(s) /\ ~sub[s].lagged) => Sources(s) = due[s]

\* two subscriptions of one topic were both handed a published event
C6_Witness ==
    /\ \A s \in Subs : Active(s) /\ ~sub[s].lagged /\ CaughtUp(s)
    /\ sub["s1"].topic = sub["s2"].topic
    /\ \A s \in Subs : Len(received[s]) >= 1 /\ Sources(s) = due[s]

\* C7: once Cancel has been called on a subscription, its task takes no
\* further message and begins no further callback invocation.
C7_NothingAfterCancel ==
    [][\A s \in Subs :
          (Live(s) /\ sub[s].aborted /\ sub'[s].st = "live") =>
              /\ received'[s] = received[s]
              /\ sub'[s].next = sub[s].next]_vars

\* ------------------------------------------------------------- init_event
BothPinned == RABBIT_CH # Unset /\ LOCAL_TX # Unset
\* some init_event call has returned Ok
InitCompleted == \E k \in InitCallers : ipc[k] = "done" /\ ires[k] = "Ok"

\* C8: at most one backend is ever pinned, and exactly one once init_event
\* has completed.
C8_OneBackend ==
    /\ ~BothPinned
    /\ InitCompleted => Pinned

\* C9: once a backend is pinned, the cells keep their contents, the backend
\* emit_event and listen_event take stays the same, and an init_event call
\* that starts returns Ok.
C9_PinnedForGood ==
    [][Pinned =>
          /\ RABBIT_CONN' = RABBIT_CONN /\ RABBIT_CH' = RABBIT_CH
          /\ LOCAL_TX' = LOCAL_TX
          /\ Backend' = Backend
          /\ \A k \in InitCallers :
                ipc[k] \in {"idle", "done"} =>
                    \/ ipc'[k] = ipc[k] /\ ires'[k] = ires[k]
                    \/ ipc'[k] = "done" /\ ires'[k] = "Ok"]_vars

\* C10: an init_event call that met a broker failure (connect or
\* create_channel) returns Ok with the local channel pinned, after one
\* connection attempt; no call returns an error.
C10_FailureFallsBack ==
    \A k \in InitCallers :
        /\ attempts[k] <= 1
        /\ ires[k] # "Err"
        /\ (ipc[k] = "done" /\ sawFail[k]) => (ires[k] = "Ok" /\ LOCAL_TX # Unset)

\* -------------------------------------------------------------- emit_event
NoIds(e) == e.guild_id = None /\ e.channel_id = None /\ e.user_id = None

\* C11: emit_event of an event with no guild, channel or user id returns the
\* MissingRoutingKey error and changes nothing: the local channel, the
\* declared exchanges, the queues and the subscriptions are as before.
C11_NoKeyNoEffect ==
    [][\A e \in PubEvents, o \in {"ok", "declareErr", "publishErr"} :
          (pubs' # pubs /\ NoIds(e) /\ Emit(e, o)) =>
              /\ lastCall' = EmitResult("MissingRoutingKey")
              /\ chan' = chan
              /\ exchanges' = exchanges
              /\ sub' = sub
              /\ received' = received]_vars

\* an event without ids was refused while a subscription was listening
C11_Witness ==
    /\ lastCall = EmitResult("MissingRoutingKey")
    /\ \E s \in Subs : Active(s)
    /\ chan = <<>>
    /\ \A s \in Subs : sub[s].queue = <<>>

\* the precedence rule: the guild id, else the channel id, else the user id
Precedence(e) ==
    IF e.guild_id # None THEN e.guild_id
    ELSE IF e.channel_id # None THEN e.channel_id
    ELSE e.user_id

\* C12: emit_event and the local task's filter both take the guild id, else
\* the channel id, else the user id; so under either backend a subscription
\* is handed an event only when that id of the event as published is the
\* subscription's topic: an event with a guild and a channel id reaches the
\* subscriptions of the guild id and never those of the channel id.
C12_GuildThenChannelThenUser ==
    \A s \in Subs : Live(s) =>
        \A i \in 1..Len(received[s]) : Precedence(Sources(s)[i]) = sub[s].topic

\* an event with guild id G1 and channel id C42 was handed to the subscription
\* of G1, and the subscription of C42 has taken it and was not handed it
C12_Witness ==
    /\ Active("s1") /\ Active("s2")
    /\ sub["s1"].backend = "Local"
    /\ sub["s1"].topic = "G1" /\ sub["s2"].topic = "C42"
    /\ CaughtUp("s1") /\ CaughtUp("s2")
    /\ \E i \in 1..Len(received["s1"]) :
          Sources("s1")[i].guild_id = "G1" /\ Sources("s1")[i].channel_id = "C42"
    /\ received["s2"] = <<>>

\* C13: while no backend is pinned, emit_event (of an event that has an id)
\* and listen_event fail with the BusUninitialized error; neither returns Ok.
C13_UninitializedFails ==
    Backend = "None" =>
        lastCall.res \in {"none", "BusUninitialized", "MissingRoutingKey"}

\* how many events of the local channel s has not taken yet
Behind(s) == Len(chan) - sub[s].next

\* C14: with the local channel pinned, emit_event can always be called
\* (nothing makes the publisher wait) and returns Ok for every event that has
\* an id, with no subscriber or with subscribers however far behind; it
\* changes no subscription.
C14_LocalPublishSucceeds ==
    /\ [](Backend = "Local" /\ pubs < MaxPublish =>
             \A e \in PubEvents : ENABLED Emit(e, "ok"))
    /\ [][\A e \in PubEvents :
            (pubs' # pubs /\ Backend = "Local" /\ ~NoIds(e) /\ Emit(e, "ok")) =>
                /\ lastCall' = EmitResult("Ok")
                /\ sub' = sub]_vars

\* emit_event returned Ok while one subscription was more than the capacity
\* behind and the other had been cancelled
C14_Witness ==
    /\ Backend = "Local"
    /\ lastCall = EmitResult("Ok")
    /\ \E s, t \in Subs :
          /\ Active(s) /\ Behind(s) > ChannelCapacity
          /\ sub[t].st = "ended"

LagStep(s) ==
    /\ Live(s) /\ sub[s].backend = "Local"
    /\ Behind(s) > ChannelCapacity
    /\ sub'[s] # sub[s]
    /\ LocalRecv(s)

\* the events s was owed that were published after its first lag
OwedSinceLag(s) == SubSeq(due[s], sub[s].lagAt + 1, Len(due[s]))

IsSuffix(p, q) ==
    /\ Len(p) <= Len(q)
    /\ \A i \in 1..Len(p) : p[i] = q[Len(q) - Len(p) + i]

\* a lag ends no subscription and invokes no callback
LagIsSilent ==
    [][\A s \in Subs : LagStep(s) =>
          /\ sub'[s].st = "live"
          /\ sub'[s].lagged
          /\ received' = received
          /\ lastCall' = lastCall]_vars

\* C16 as stated: a lag is skipped silently, the subscription keeps running,
\* and every event on its topic that was published after the lag was
\* observed is handed to the callback.
C16_AllDeliveredAfterLag ==
    /\ LagIsSilent
    /\ [](\A s \in Subs :
            (Active(s) /\ sub[s].lagged /\ CaughtUp(s)) =>
                IsSuffix(OwedSinceLag(s), Sources(s)))

\* C16, amended: the same for a subscription that has not lagged a second
\* time; events published after a lag can be dropped by a later lag.
C16_DeliveredUnlessLaggedAgain ==
    /\ LagIsSilent
    /\ [](\A s \in Subs :
            (Active(s) /\ sub[s].lagged /\ ~sub[s].relagged /\ CaughtUp(s)) =>
                IsSuffix(OwedSinceLag(s), Sources(s)))

\* a subscription lagged once, and an event published after that was handed
\* to its callback
C16_Witness ==
    \E s \in Subs :
        /\ Active(s) /\ sub[s].lagged /\ ~sub[s].relagged /\ CaughtUp(s)
        /\ OwedSinceLag(s) # <<>>
        /\ IsSuffix(OwedSinceLag(s), Sources(s))

\* ------------------------------------------------- protocol errors (gateway)
\* the messages that are protocol errors: what does not decode, and an
\* envelope with an op no handler takes
ProtocolErrors ==
    Undecodable \cup { m \in IntEnvelopes : m.op \in 0..U8Max /\ m.op \notin {1, 2, 6} }

\* the close frame a protocol error asks for
CloseFor(m) == IF m \in Undecodable THEN DecodeClose ELSE UnknownClose(m.op)

\* the task of c was ended by a protocol error: it left the loop on a close
\* frame it sent
Failed(c) ==
    /\ pc[c] \in {"wantRemove", "removing", "done"}
    /\ out[c] # <<>>
    /\ LastSent(c).f.kind = "Close"

EntryOf(m, a) == { e \in m : e.addr = a }

\* what a step leaves alone for every connection but c, and for the bus
OthersUntouched(c) ==
    /\ \A d \in Conns \ {c} :
          /\ EntryOf(connections', d) = EntryOf(connections, d)
          /\ pc'[d] = pc[d]
          /\ up'[d] = up[d]
          /\ out'[d] = out[d]
          /\ ran'[d] = ran[d]
    /\ sub' = sub /\ received' = received /\ chan' = chan

\* C17: a protocol error on connection c ends that connection only: the step
\* that handles it, and the steps that then take c out of the registry, leave
\* the entries of the other connections, their position (Open stays Open) and
\* the subscriptions as they were.
C17_ErrorIsLocal ==
    [][\A c \in Conns :
          /\ \A m \in ProtocolErrors, ok \in BOOLEAN :
                (nIn' # nIn /\ RecvMessage(c, m, ok)) =>
                    (Failed(c)' /\ OthersUntouched(c))
          /\ (Failed(c) /\ pc'[c] # pc[c] /\ Failed(c)') => OthersUntouched(c)]_vars

\* c was ended by a protocol error and is out of the registry; d is Open and
\* has its entry
C17_Witness ==
    \E c, d \in Conns :
        /\ c # d
        /\ Failed(c) /\ pc[c] = "done" /\ EntryOf(connections, c) = {}
        /\ ConnState(d) = "Open" /\ pc[d] = "recv" /\ up[d]
        /\ EntryOf(connections, d) # {}

CloseFrames(q) == { i \in 1..Len(q) : q[i].f.kind = "Close" }

\* C18: the step that handles a protocol error hands the socket one close
\* frame with the error's code and reason (4001 "unknown opcode <n>", 4002
\* "decode error"), the first close frame of the connection, and leaves the
\* loop; from then on, to the end of the task and after, that frame is the
\* only close frame of the connection and the last frame handed to the socket.
C18_OneCloseFrameLast ==
    /\ [][\A c \in Conns, m \in ProtocolErrors, ok \in BOOLEAN :
            (nIn' # nIn /\ RecvMessage(c, m, ok)) =>
                /\ CloseFrames(out[c]) = {}
                /\ out'[c] = Append(out[c], [f |-> CloseFor(m), ok |-> ok])
                /\ pc'[c] = "wantRemove"]_vars
    /\ [](\A c \in Conns :
            /\ Cardinality(CloseFrames(out[c])) <= 1
            /\ Failed(c) => CloseFrames(out[c]) = {Len(out[c])})

\* the task of a connection that sent what does not decode has ended; the
\* frames it was sent are the hello and the 4002 close frame
C18_Witness ==
    \E c \in Conns :
        /\ pc[c] = "done"
        /\ Failed(c)
        /\ Len(out[c]) = 2
        /\ CloseFrames(out[c]) = {2}
        /\ out[c][2] = [f |-> DecodeClose, ok |-> TRUE]

\* c has been sent a heartbeat ack since it was accepted
Acked(c) == \E i \in 1..Len(out[c]) : out[c][i].f = [kind |-> "Text", op |-> 11]

Op99 == { m \in IntEnvelopes : m.op = 99 }

\* C19: on one connection, {"op":1} is answered by {"op":11} and the
\* connection stays Open; a later {"op":99} on that connection closes it with
\* code 4001 all the same, after the frames sent before.
C19_HeartbeatThenUnknown ==
    [][\A c \in Conns, ok \in BOOLEAN :
          /\ \A m \in HeartbeatEnvelopes :
                (nIn' # nIn /\ RecvMessage(c, m, ok)) =>
                    /\ out'[c] = Append(out[c], [f |-> [kind |-> "Text", op |-> 11], ok |-> ok])
                    /\ ConnState(c)' = "Open"
                    /\ Acked(c)'
          /\ \A m \in Op99 :
                (nIn' # nIn /\ Acked(c) /\ RecvMessage(c, m, ok)) =>
                    /\ out'[c] = Append(out[c], [f |-> UnknownClose(99), ok |-> ok])
                    /\ ConnState(c)' = "Closing"]_vars

\* the scenario: hello, {"op":1} answered by {"op":11}, then {"op":99}
\* answered by the 4001 close frame
C19_Witness ==
    \E c \in Conns :
        /\ ConnState(c) \in {"Closing", "Closed"}
        /\ ran[c] = <<"heartbeat">>
        /\ out[c] = << [f |-> Hello, ok |-> TRUE],
                       [f |-> [kind |-> "Text", op |-> 11], ok |-> TRUE],
                       [f |-> UnknownClose(99), ok |-> TRUE] >>

\* ------------------------------------------------- init_event without a host
\* C20: when the configuration names no broker host, no init_event call
\* attempts a connection, the broker cells stay unset, no call fails, and
\* every call that has returned has left the local channel pinned.
C20_NoHostPinsLocal ==
    CONFIG = "nohost" =>
        /\ RABBIT_CONN = Unset /\ RABBIT_CH = Unset
        /\ \A k \in InitCallers :
              /\ ipc[k] \notin {"connect", "channel"}
              /\ attempts[k] = 0
              /\ ires[k] # "Err"
              /\ ipc[k] = "done" => (ires[k] = "Ok" /\ LOCAL_TX # Unset)

\* with no host configured two calls have returned Ok, and the local channel
\* is the one the first of them made
C20_Witness ==
    /\ CONFIG = "nohost"
    /\ Backend = "Local"
    /\ \E k, j \in InitCallers :
          /\ k # j
          /\ ipc[k] = "done" /\ ires[k] = "Ok"
          /\ ipc[j] = "done" /\ ires[j] = "Ok"
          /\ LOCAL_TX = k

\* ------------------------------------------------------------------ C21
\* C21: the event a callback is handed is the event that was published,
\* whatever the backend: the same name, the same data and the same scope
\* fields (an event published with only a channel id, or only a user id, is
\* delivered with that field set), under Broker as under Local.
C21_SameEventOnBothBackends ==
    \A s \in Subs : \A i \in 1..Len(received[s]) :
        received[s][i].evt = received[s][i].src

\* ------------------------------------------------------------------ C22
\* C22: on every path out of the receive loop (dispatcher failure, decode
\* error, binary frame, peer close, receive error, end of stream; a failed
\* send of Hello, of a Heartbeat-Ack or of a close frame ends in one of the
\* last two) the connection's registry entry is removed exactly once before
\* the task ends: leaving Open leads to Closing with the entry still there,
\* the entry goes away only in the task's one remove step, which is the step
\* that ends the task, and an ended task has no entry.
C22_RemovedOnceOnEveryExit ==
    /\ [](\A c \in Conns : pc[c] = "done" => c \notin Keys(connections))
    /\ [][\A c \in Conns :
            /\ (ConnState(c) = "Open" /\ ConnState(c)' # "Open")
                  => (ConnState(c)' = "Closing" /\ c \in Keys(connections'))
            /\ (c \in Keys(connections) /\ c \notin Keys(connections'))
                  => (pc[c] = "removing" /\ pc'[c] = "done")
            /\ (pc[c] # "done" /\ pc'[c] = "done")
                  => (c \in Keys(connections) /\ c \notin Keys(connections'))]_vars

\* one task ended after its Hello could not be sent, another after it sent a
\* close frame; neither has an entry
C22_Witness ==
    \E c, d \in Conns :
        /\ pc[c] = "done" /\ out[c] = <<Sent(Hello, FALSE)>>
        /\ pc[d] = "done" /\ CloseFrames(out[d]) = {2}
        /\ connections = {}

\* ------------------------------------------------------------------ C23
\* C23: a new connection is first put in the registry, then sent exactly one
\* Hello, {"op":10,"d":{"heartbeat_interval":30000}}, and only then is its
\* first inbound frame handled: while the Hello is still to be sent the entry
\* is there and nothing was sent or handled; once the loop runs, the Hello is
\* the first outbound frame and no later outbound frame is a Hello.
C23_InsertHelloThenReceive ==
    \A c \in Conns :
        /\ ConnState(c) = "Connecting" => (out[c] = <<>> /\ ran[c] = <<>>)
        /\ pc[c] \in {"wantCount", "counting", "hello"}
              => (c \in Keys(connections) /\ out[c] = <<>> /\ ran[c] = <<>>)
        /\ pc[c] \in {"recv", "wantRemove", "removing", "done"}
              => /\ Len(out[c]) >= 1
                 /\ out[c][1].f = [kind |-> "Text", op |-> 10,
                                   heartbeat_interval |-> 30000]
                 /\ \A i \in 2..Len(out[c]) : out[c][i].f # out[c][1].f

\* two connections in their loops: one handled two frames after its Hello,
\* one has sent its Hello and handled nothing yet
C23_Witness ==
    \E c, d \in Conns :
        /\ pc[c] = "recv" /\ Len(ran[c]) = 2 /\ out[c][1] = Sent(Hello, TRUE)
        /\ pc[d] = "recv" /\ ran[d] = <<>> /\ out[d] = <<Sent(Hello, TRUE)>>
        /\ Keys(connections) = {c, d}

\* ------------------------------------------------------------------ C24
\* C24: the registry lock is held only for the insert, the size read and the
\* remove: whoever holds it is at one of these three steps, so no task holds
\* it while it sends a frame (Hello, Heartbeat-Ack, close frame) or waits for
\* one, and a task waiting for the lock does not hold it.
C24_LockOnlyAroundRegistry ==
    /\ lock \in Conns \cup {NoOne}
    /\ \A c \in Conns :
          /\ lock = c <=> pc[c] \in {"inserting", "counting", "removing"}
          /\ pc[c] \in {"hello", "recv"} => lock # c

\* one task holds the lock for its remove while the other, having answered
\* a Heartbeat, waits for its next frame
C24_Witness ==
    \E c, d \in Conns :
        /\ lock = c /\ pc[c] = "removing"
        /\ pc[d] = "recv" /\ up[d] /\ out[d] = <<Sent(Hello, TRUE), Sent(HeartbeatAck, TRUE)>>

\* ------------------------------------------------------------------ C25
IdentifyResume == { m \in IntEnvelopes : m.op \in {2, 6} }

\* C25: an Identify (op 2) or a Resume (op 6), with or without a payload, is
\* a no-op for the protocol: the step that handles it sends no frame on any
\* connection, changes no registry entry and no other connection, takes no
\* lock, and leaves the connection Open in its loop.
C25_IdentifyResumeNoOp ==
    [][\A c \in Conns : \A m \in IdentifyResume :
          (nIn' # nIn /\ RecvMessage(c, m, TRUE)) =>
              /\ out' = out
              /\ connections' = connections
              /\ info' = info
              /\ lock' = lock
              /\ pc' = pc /\ pc'[c] = "recv"
              /\ up' = up
              /\ ConnState(c)' = "Open"]_vars

\* a connection that handled an Identify and a Resume was sent its Hello and
\* nothing else, and is Open with its entry, beside another Open connection
C25_Witness ==
    \E c, d \in Conns :
        /\ c # d
        /\ ran[c] = <<"identify", "resume">>
        /\ out[c] = <<Sent(Hello, TRUE)>>
        /\ pc[c] = "recv" /\ pc[d] = "recv"
        /\ Keys(connections) = {c, d}

\* ------------------------------------------------------------------ C26
\* C26: a close frame from the peer ends the loop with no error: the step
\* sends no frame, runs no handler and leaves the connection Closing, its
\* entry still to be removed by the cleanup, after which the ended task has
\* no entry.  A ping or a pong is ignored: the step sends nothing, the
\* connection stays Open in its loop and the registry is unchanged.
C26_PeerCloseAndPingPong ==
    /\ [](\A c \in Conns :
            (pc[c] = "done" /\ CloseFrames(out[c]) = {}) => c \notin Keys(connections))
    /\ [][\A c \in Conns :
            /\ (nIn' # nIn /\ RecvMessage(c, [kind |-> "Close"], TRUE)) =>
                  /\ out' = out /\ ran' = ran /\ connections' = connections
                  /\ ConnState(c)' = "Closing"
                  /\ \A d \in Conns \ {c} : pc'[d] = pc[d]
            /\ \A k \in {"Ping", "Pong"} :
                  (nIn' # nIn /\ RecvMessage(c, [kind |-> k], TRUE)) =>
                      /\ out' = out /\ ran' = ran /\ connections' = connections
                      /\ pc' = pc /\ up' = up /\ lock' = lock
                      /\ ConnState(c)' = "Open"]_vars

\* two frames came in and no handler ran: c was closed by its peer (its
\* transport never failed and it was sent only its Hello) and is gone from
\* the registry; the other frame was a ping or a pong, and d is Open
C26_Witness ==
    \E c, d \in Conns :
        /\ nIn = 2
        /\ pc[c] = "done" /\ up[c] /\ out[c] = <<Sent(Hello, TRUE)>> /\ ran[c] = <<>>
        /\ pc[d] = "recv" /\ out[d] = <<Sent(Hello, TRUE)>> /\ ran[d] = <<>>
        /\ Keys(connections) = {d}

\* ------------------------------------------------------------------ C27
\* the callback invocations of s that have returned
Returned(s) ==
    Len(received[s]) - (IF sub[s].phase \in {"callback", "ack"} THEN 1 ELSE 0)

\* C27: under Broker a delivery is acknowledged only after the callback
\* called with it has returned, never before or without that call: a
\* subscription's acknowledgments are exactly its callback invocations that
\* have returned and whose ack has completed, and a step that acknowledges
\* is taken with the callback of that delivery returned.
C27_AckAfterCallback ==
    /\ [](\A s \in Subs :
            (Live(s) /\ sub[s].backend = "Broker") =>
                /\ sub[s].acked = Returned(s)
                /\ sub[s].acked <= Len(received[s]))
    /\ [][\A s \in Subs :
            (Live(s) /\ sub'[s].acked > sub[s].acked) =>
                /\ sub[s].phase = "ack"
                /\ sub'[s].acked = sub[s].acked + 1
                /\ received'[s] = received[s]
                /\ Len(received[s]) = sub'[s].acked]_vars

\* a broker subscription whose two deliveries were both handed to the
\* callback and then acknowledged
C27_Witness ==
    \E s \in Subs :
        /\ Live(s) /\ sub[s].backend = "Broker"
        /\ sub[s].acked = 2 /\ Len(received[s]) = 2 /\ sub[s].queue = <<>>

\* ------------------------------------------------------------------ C28
\* C28: within one subscription, on either backend, callback invocations do
\* not overlap: a callback is called, and the next event is taken from the
\* channel or the queue, only by a task that is at its receive, with the
\* callback of the event before returned and, under Broker, its ack
\* completed; each step calls the callback at most once.
C28_OneCallbackAtATime ==
    [][\A s \in Subs :
          /\ received'[s] # received[s] =>
                /\ Live(s) /\ sub[s].phase = "recv" /\ sub'[s].phase = "callback"
                /\ Len(received'[s]) = Len(received[s]) + 1
                /\ sub[s].backend = "Broker" => sub[s].acked = Len(received[s])
          /\ (Live(s) /\ Live(s)' /\ sub'[s].next # sub[s].next)
                => sub[s].phase = "recv"
          /\ (Live(s) /\ Live(s)' /\ Len(sub'[s].queue) < Len(sub[s].queue))
                => sub[s].phase = "recv"]_vars

\* the callback of a broker subscription is running for the second delivery,
\* the first one returned and acknowledged
C28_Witness ==
    \E s \in Subs :
        /\ Live(s) /\ sub[s].backend = "Broker"
        /\ Len(received[s]) = 2 /\ sub[s].phase = "callback" /\ sub[s].acked = 1

\* ------------------------------------------------------------------ C29
\* C29: under Broker a publish returns success only after the broker has
\* acknowledged the message; a failure of the exchange declaration or of the
\* publish is returned to the caller as an error, with no delivery; the
\* publish is attempted once: one call routes the message at most once to
\* each bound queue.
C29_SuccessMeansAcknowledged ==
    [][\A e \in PubEvents, o \in {"ok", "declareErr", "publishErr"} :
          (pubs' # pubs /\ Backend = "Broker" /\ TopicOf(e) # None /\ Emit(e, o)) =>
              /\ o = "ok" =>
                    /\ lastCall'.res = "Ok"
                    /\ lastCall'.confirm = "Ack"
                    /\ \A s \in Subs :
                          sub'[s].queue = IF s \in Bound(TopicOf(e))
                                          THEN Append(sub[s].queue, Message(e))
                                          ELSE sub[s].queue
              /\ o # "ok" =>
                    /\ lastCall'.res = "PublishError"
                    /\ sub' = sub]_vars

\* ------------------------------------------------------------------ C30
\* C30: a subscription's delivery task stops only when its own cancel handle
\* is invoked: a step after which a live subscription is no longer live is
\* its own cancel, or the suspension of a task whose own cancel was invoked
\* before; no publish, no lag, no failed delivery, no callback return or ack
\* and no cancel of another subscription ends it.
C30_OnlyOwnCancelStops ==
    [][\A s \in Subs :
          (Live(s) /\ ~Live(s)') =>
              /\ Cancel(s) \/ (sub[s].aborted /\ Suspend(s))
              /\ sub'[s] = Dropped
              /\ \A t \in Subs \ {s} : sub'[t] = sub[t]]_vars

\* s is still live after two publishes, a lag of its own and the cancel of
\* the other subscription, which has stopped
C30_Witness ==
    \E s, t \in Subs :
        /\ Live(s) /\ ~sub[s].aborted /\ sub[s].lagged
        /\ sub[t] = Dropped
        /\ pubs = 2

\* ------------------------------------------------------------------ C31
Range(q) == { q[i] : i \in 1..Len(q) }

\* C31: a subscription is never handed an event whose publish had returned
\* before the subscription was made, on either backend: all that the callback
\* of a subscription has been called with, and (Broker) all that waits in its
\* queue, was published on its topic after it subscribed.
C31_NoBackfill ==
    \A s \in Subs : Active(s) =>
        /\ Range(Sources(s)) \subseteq Range(due[s])
        /\ Len(received[s]) + Len(sub[s].queue) <= Len(due[s])
        /\ sub[s].backend = "Local" => sub[s].next <= Len(chan)

\* the local channel still holds an event that the first subscription was
\* handed; the second one, made on the same topic after that publish, has
\* nothing to take and was handed nothing
C31_Witness ==
    /\ Backend = "Local"
    /\ chan # <<>>
    /\ Active("s1") /\ Len(received["s1"]) = 1
    /\ Active("s2") /\ sub["s2"].topic = sub["s1"].topic
    /\ sub["s2"].next = Len(chan) /\ received["s2"] = <<>> /\ due["s2"] = <<>>
    /\ sub["s2"].midPoll = FALSE

\* ------------------------------------------------------------------ C32
\* what the source holds for s and its task has not taken yet: the events of
\* its topic in the local channel after its cursor, or the messages of its
\* queue
Waiting(s) ==
    IF sub[s].backend = "Local"
    THEN OnTopic(SubSeq(chan, sub[s].next + 1, Len(chan)), sub[s].topic)
    ELSE [i \in 1..Len(sub[s].queue) |-> sub[s].queue[i].src]

\* C32: once listen_event has returned Ok the subscription is registered with
\* the source: the step that returns Ok leaves it a receiver of the local
\* channel or a bound queue of its exchange, and from then on, while it is
\* not cancelled and (Local) has not lagged and is not beyond the channel's
\* capacity behind, every event published on its topic has been handed to
\* its callback or waits at the source for its task, in publish order.
C32_RegisteredOnReturn ==
    /\ [](\A s \in Subs :
            (Active(s) /\ ~sub[s].lagged
                /\ (sub[s].backend = "Local" => Behind(s) <= ChannelCapacity))
            => Sources(s) \o Waiting(s) = due[s])
    /\ [][\A s \in Subs, id \in Topics :
            (sub[s].st = "none" /\ Listen(s, id, "ok") /\ lastCall'.res = "Ok")
            => /\ s \in Subscribed(id)'
               /\ s \in Receivers' \cup Bound(id)']_vars

\* a subscription made before two publishes on its topic: one event was
\* handed to its callback, which has returned, the other waits at the source
C32_Witness ==
    \E s \in Subs :
        /\ Active(s) /\ ~sub[s].lagged /\ sub[s].phase = "recv"
        /\ Len(due[s]) = 2 /\ Len(received[s]) = 1 /\ Len(Waiting(s)) = 1
        /\ sub[s].backend = "Broker"

\* ------------------------------------------------------------------ C33
\* the cancel step of s, and the step that drops its cancelled task, leave
\* every other subscription, what was handed to it and what the source holds
\* unchanged
CancelTouchesOnly(s) ==
    ((Active(s) /\ Cancel(s)) \/ (Live(s) /\ sub[s].aborted /\ Suspend(s))) =>
        /\ \A t \in Subs \ {s} : sub'[t] = sub[t] /\ received'[t] = received[t]
        /\ due' = due /\ chan' = chan /\ exchanges' = exchanges

\* C33 as stated: cancelling a subscription changes no other subscription,
\* whatever its topic, and the others go on being handed every event
\* published on their topic: once another subscription has ended, one that
\* was not cancelled and has caught up has been handed all that was published
\* on its topic since it subscribed.
C33_OthersReceiveAll ==
    /\ [][\A s \in Subs : CancelTouchesOnly(s)]_vars
    /\ [](\A t \in Subs :
            ((\E s \in Subs : sub[s].st = "ended") /\ Active(t) /\ CaughtUp(t))
            => Sources(t) = due[t])

\* C33, amended: cancelling a subscription changes no other subscription,
\* whatever its topic, and the others go on being handed every event
\* published on their topic, except that a subscription of the local channel
\* that falls more than the channel's capacity behind loses the oldest
\* events, as it does with no cancel at all.
C33_CancelIsLocal ==
    /\ [][\A s \in Subs : CancelTouchesOnly(s)]_vars
    /\ [](\A t \in Subs :
            (/\ \E s \in Subs : sub[s].st = "ended"
             /\ Active(t) /\ ~sub[t].lagged
             /\ sub[t].backend = "Local" => Behind(t) <= ChannelCapacity)
            => Sources(t) \o Waiting(t) = due[t])

\* two subscriptions of one topic were handed the first event; s was then
\* cancelled and has ended, and t was handed the event published after that
C33_Witness ==
    \E s, t \in Subs :
        /\ sub[s] = Dropped /\ Len(received[s]) = 1 /\ Len(due[s]) = 1
        /\ Active(t) /\ TopicOf(Sources(s)[1]) = sub[t].topic
        /\ Len(due[t]) = 2 /\ Sources(t) = due[t]

\* ------------------------------------------------------------------ C34
\* C34: on Local all topics share the one channel, and how far a subscriber
\* is behind is counted in events of every topic (Behind).  A subscriber that
\* has never been more than the channel's capacity behind has been handed,
\* or still has waiting in the channel, every event published on its topic;
\* an event of its topic is lost to it only by a lag, and it lags only when
\* more than the capacity was published, on any topics, before it read.
C34_SharedCapacity ==
    /\ [](\A s \in Subs :
            (Active(s) /\ sub[s].backend = "Local" /\ ~sub[s].lagged
                /\ Behind(s) <= ChannelCapacity)
            => Sources(s) \o Waiting(s) = due[s])
    /\ [](\A s \in Subs :
            (Active(s) /\ sub[s].backend = "Local"
                /\ ~IsSuffix(Waiting(s), due[s]))
            => (sub[s].lagged \/ Behind(s) > ChannelCapacity))
    /\ [][\A s \in Subs :
            (Live(s) /\ sub[s].backend = "Local" /\ ~sub[s].lagged /\ sub'[s].lagged)
            => Behind(s) > ChannelCapacity]_vars

\* a subscriber lost the one event of its topic because an event of another
\* topic was published on the shared channel before it read
C34_Witness ==
    \E s \in Subs :
        /\ Active(s) /\ sub[s].backend = "Local" /\ sub[s].lagged
        /\ Len(chan) = ChannelCapacity + 1
        /\ TopicOf(chan[1]) = sub[s].topic /\ due[s] = <<chan[1]>>
        /\ TopicOf(chan[Len(chan)]) # sub[s].topic
        /\ sub[s].next = Len(chan) /\ received[s] = <<>>

\* ------------------------------------------------------------------ C35
\* the value splits on ',' into exactly two parts, each the decimal text of
\* an integer of 0..65535
TwoU16(q) ==
    /\ Len(q) = 2
    /\ \A i \in 1..2 : q[i].num /\ q[i].v \in 0..65535

\* C35: the "shard" parameter never has a connection rejected.  Whatever its
\* value, the accepted connection goes on to its registry insert, its entry
\* carries the shard descriptor exactly when the value is two parts that both
\* parse as unsigned 16-bit integers (then with these two numbers) and no
\* shard in every other case, and the Hello can be sent.
C35_ShardNeverRejects ==
    /\ [][\A c \in Conns, q \in ShardQueries :
            (accepts' # accepts /\ Accept(c, q)) =>
                /\ pc'[c] = "wantInsert"
                /\ info'[c].shard =
                      IF TwoU16(q)
                      THEN [some |-> TRUE, id |-> q[1].v, count |-> q[2].v]
                      ELSE [some |-> FALSE, id |-> 0, count |-> 0]]_vars
    /\ [](\A c \in Conns :
            /\ c \in Keys(connections) => info[c] \in connections
            /\ pc[c] = "hello" => (c \in Keys(connections) /\ ENABLED SendHello(c, TRUE)))

\* one Open connection registered with shard 0 of 2, another with no shard,
\* each sent its Hello
C35_Witness ==
    \E c, d \in Conns :
        /\ pc[c] = "recv" /\ pc[d] = "recv"
        /\ out[c] = <<Sent(Hello, TRUE)>> /\ out[d] = <<Sent(Hello, TRUE)>>
        /\ Entry(c, info[c].session_id, [some |-> TRUE, id |-> 0, count |-> 2]) \in connections
        /\ Entry(d, info[d].session_id, NoShard) \in connections

\* ------------------------------------------------------------------ C36
\* C36: the close codes are one per error kind, pairwise distinct: 4002 for
\* DecodeError, 4001 for UnknownOpcode and 4012 for InvalidApiVersion.  Every
\* close frame the connection loop sends carries 4001 or 4002, the one of its
\* error kind as its reason text tells, and never the reserved 4012.
C36_CloseCodes ==
    /\ Cardinality({CodeDecodeError, CodeUnknownOpcode, CodeInvalidApiVersion}) = 3
    /\ close_frame(InvalidApiVersion).code = 4012
    /\ \A c \in Conns : \A i \in CloseFrames(out[c]) :
          LET f == out[c][i].f IN
          /\ f.code \in {4001, 4002}
          /\ f.code # 4012
          /\ f.code = 4002 <=> f.reason = <<"decode error">>
          /\ f.code = 4001 <=> (Len(f.reason) = 2 /\ f.reason[1] = "unknown opcode")

\* one connection was closed with 4002, the other with 4001
C36_Witness ==
    \E c, d \in Conns :
        /\ \E i \in CloseFrames(out[c]) : out[c][i].f.code = 4002
        /\ \E i \in CloseFrames(out[d]) : out[d][i].f.code = 4001

\* ------------------------------------------------------------------ C37
\* C37: every event on the local channel has at least one of guild_id,
\* channel_id and user_id set, so the id the subscriber's filter derives from
\* an event it takes is never absent; an event with none of them is refused
\* by emit_event before the send.
C37_ChannelEventsHaveTopic ==
    \A i \in 1..Len(chan) :
        /\ chan[i].guild_id # None \/ chan[i].channel_id # None \/ chan[i].user_id # None
        /\ EvtId(chan[i]) # None

\* with a receiver on the channel, one publish was stored and a publish of an
\* event with no id was refused and stored nothing
C37_Witness ==
    /\ Backend = "Local" /\ Receivers # {}
    /\ pubs = 2 /\ Len(chan) = 1
    /\ lastCall = EmitResult("MissingRoutingKey")

====
